---- MODULE Spec2Model ----
(***************************************************************************)
(* Model of src/server.py: a forking HTTP server.                          *)
(*                                                                         *)
(*   Listener  serve_forever(): bind, listen, install the SIGCHLD handler, *)
(*             then loop { accept; fork; parent closes its copy }.         *)
(*   Worker    the forked child: close the listening socket, run           *)
(*             handle_request (one recv, maybe one sendall), close the     *)
(*             connection, os._exit(0).  An OSError raised by recv or      *)
(*             sendall is caught nowhere: it unwinds the child's copy of   *)
(*             serve_forever and the child terminates with status 1.       *)
(*   Reaper    reap_children(): the SIGCHLD handler, run by the Listener's *)
(*             interpreter between two of its steps (or inside a blocked   *)
(*             accept); loops on waitpid(-1, WNOHANG).                     *)
(*                                                                         *)
(* The environment (clients, the kernel) is the nondeterminism of the      *)
(* actions: whether a connection arrives, what recv returns, whether a     *)
(* system call fails, when a signal is delivered.                          *)
(***************************************************************************)
EXTENDS Integers, Sequences, FiniteSets, TLC

\* ---- bounds of the model ------------------------------------------------
MaxConn == 2        \* connections accepted in one run

\* ---- program constants --------------------------------------------------
BUFFER_SIZE == 1024

Conns == 1..MaxConn

\* the non-empty payloads a client may send: "G", and a byte that is never
\* valid UTF-8 followed by "G"
Payloads == { << 71 >>, << 255, 71 >> }

Min(a, b) == IF a <= b THEN a ELSE b

\* the response literal of handle_request, in two pieces: the head (status
\* line, header, blank line) and the body
Response ==
  << "HTTP/1.1 200 OK\nContent-Type: text/plain\n\n", "Hello, World!\n" >>

\* conn.recv(BUFFER_SIZE): at most BUFFER_SIZE bytes of what the peer sent
Recv(data) == SubSeq(data, 1, Min(Len(data), BUFFER_SIZE))

\* request.decode(errors="ignore"): undecodable bytes are dropped
Decode(bs) == SelectSeq(bs, LAMBDA b : b < 128)

VARIABLES
  lpc,          \* Listener: position in serve_forever
  llisten,      \* Listener's listening socket is bound and listening
  err,          \* Listener: errno of the most recent failed accept
  installed,    \* the SIGCHLD handler is registered
  nconn,        \* connections accepted so far
  client_conn,  \* Listener: the connection returned by the last accept
  lfd,          \* Listener's descriptor of each connection
  wpc,          \* Worker: position / process state
  wlisten,      \* Worker holds a copy of the listening socket
  wfd,          \* Worker's descriptor of its connection
  wcloses,      \* Worker: calls of client_conn.close()
  request,      \* Worker: the bytes its recv returned
  nrecv,        \* Worker: calls of recv
  nsend,        \* Worker: calls of sendall
  printed,      \* Worker: what it printed
  written,      \* bytes written to each connection
  status,       \* exit status of each Worker
  reapedBy,     \* who collected each Worker's status
  sigpending,   \* kernel: a SIGCHLD is pending for the Listener
  depth         \* running (nested) invocations of reap_children

vars == << lpc, llisten, err, installed, nconn, client_conn, lfd, wpc, wlisten, wfd,
           wcloses, request, nrecv, nsend, printed, written, status, reapedBy,
           sigpending, depth >>

lvars == << lpc, llisten, err, installed, nconn, client_conn, lfd >>
wvars == << wpc, wlisten, wfd, wcloses, request, nrecv, nsend, printed,
            written, status, reapedBy >>
svars == << sigpending >>
hvars == << depth >>

\* ---- process table -------------------------------------------------------
Spawned    == {c \in Conns : wpc[c] # "none"}
Zombies    == {c \in Conns : wpc[c] = "zombie"}
Terminated == {c \in Conns : wpc[c] \in {"zombie", "reaped"}}
\* children of the Listener the kernel still has a record of
Children   == {c \in Conns : wpc[c] \notin {"none", "reaped"}}
Running    == Children \ Zombies
Alive      == lpc # "exited"

Init ==
  /\ lpc = "bind"
  /\ llisten = FALSE
  /\ err = "none"
  /\ installed = FALSE
  /\ nconn = 0
  /\ client_conn = 0
  /\ lfd = [c \in Conns |-> "none"]
  /\ wpc = [c \in Conns |-> "none"]
  /\ wlisten = [c \in Conns |-> FALSE]
  /\ wfd = [c \in Conns |-> "none"]
  /\ wcloses = [c \in Conns |-> 0]
  /\ request = [c \in Conns |-> << >>]
  /\ nrecv = [c \in Conns |-> 0]
  /\ nsend = [c \in Conns |-> 0]
  /\ printed = [c \in Conns |-> << >>]
  /\ written = [c \in Conns |-> << >>]
  /\ status = [c \in Conns |-> -1]
  /\ reapedBy = [c \in Conns |-> "none"]
  /\ sigpending = FALSE
  /\ depth = 0

\* ---- the Listener ---------------------------------------------------------
\* The Listener's own code runs only while no handler invocation is running.
ListenerRuns == Alive /\ depth = 0

\* The Listener process ends: the kernel hands its children to init, which
\* collects those that have terminated.
Orphaned(w) ==
  [c \in Conns |-> IF w[c] = "zombie" THEN "reaped" ELSE w[c]]
OrphanedBy(w, r) ==
  [c \in Conns |-> IF w[c] = "zombie" THEN "init" ELSE r[c]]

Exit ==
  /\ lpc' = "exited"
  /\ wpc' = Orphaned(wpc)
  /\ reapedBy' = OrphanedBy(wpc, reapedBy)

\* socket(), setsockopt(), bind()
Bind ==
  /\ ListenerRuns /\ lpc = "bind"
  /\ \/ lpc' = "listen" /\ UNCHANGED << wpc, reapedBy >>
     \/ Exit
  /\ UNCHANGED << llisten, err, installed, nconn, client_conn, lfd, wlisten,
                  wfd, wcloses, request, nrecv, nsend, printed, written,
                  status >>
  /\ UNCHANGED << svars, hvars >>

\* a failed listen() passed over: the Listener goes on without a listening
\* socket
ListenSwallow ==
  /\ ListenerRuns /\ lpc = "listen"
  /\ lpc' = "signal"
  /\ llisten' \in BOOLEAN
  /\ UNCHANGED << err, installed, nconn, client_conn, lfd >>
  /\ UNCHANGED << wvars, svars, hvars >>

\* listen(REQUEST_QUEUE_SIZE), print
Listen ==
  /\ ListenerRuns /\ lpc = "listen"
  /\ \/ lpc' = "signal" /\ llisten' = TRUE /\ UNCHANGED << wpc, reapedBy >>
     \/ Exit /\ UNCHANGED llisten
  /\ UNCHANGED << err, installed, nconn, client_conn, lfd, wlisten, wfd,
                  wcloses, request, nrecv, nsend, printed, written, status >>
  /\ UNCHANGED << svars, hvars >>

\* the registration left out: SIGCHLD keeps its default disposition
InstallHandlerDefault ==
  /\ ListenerRuns /\ lpc = "signal"
  /\ lpc' = "accept"
  /\ UNCHANGED << llisten, err, installed, nconn, client_conn, lfd >>
  /\ UNCHANGED << wvars, svars, hvars >>

\* signal.signal(SIGCHLD, reap_children)
InstallHandler ==
  /\ ListenerRuns /\ lpc = "signal"
  /\ installed' = TRUE
  /\ lpc' = "accept"
  /\ UNCHANGED << llisten, err, nconn, client_conn, lfd >>
  /\ UNCHANGED << wvars, svars, hvars >>

\* listen_socket.accept() returns a connection
AcceptOk ==
  /\ ListenerRuns /\ lpc = "accept"
  /\ llisten
  /\ nconn < MaxConn
  /\ nconn' = nconn + 1
  /\ client_conn' = nconn + 1
  /\ lfd' = [lfd EXCEPT ![nconn + 1] = "open"]
  /\ lpc' = "fork"
  /\ UNCHANGED << llisten, err, installed >>
  /\ UNCHANGED << wvars, svars, hvars >>

\* listen_socket.accept() raises an OSError that is not EINTR
AcceptFail ==
  /\ ListenerRuns /\ lpc = "accept"
  /\ err' = "OTHER"
  /\ lpc' = "except"
  /\ UNCHANGED << llisten, installed, nconn, client_conn, lfd >>
  /\ UNCHANGED << wvars, svars, hvars >>

\* "continue" whatever the errno / "raise" whatever the errno
ExceptAlways(e) == "accept"
ExceptNever(e) == "exited"

\* except OSError as e: if e.errno == errno.EINTR: continue / raise
ExceptNext(e) == IF e = "EINTR" THEN "accept" ELSE "exited"

Except ==
  /\ ListenerRuns /\ lpc = "except"
  /\ IF ExceptNext(err) = "accept"
       THEN lpc' = "accept" /\ UNCHANGED << wpc, reapedBy >>
       ELSE Exit
  /\ UNCHANGED << llisten, err, installed, nconn, client_conn, lfd, wlisten,
                  wfd, wcloses, request, nrecv, nsend, printed, written,
                  status >>
  /\ UNCHANGED << svars, hvars >>

\* a failed fork caught and passed over: back to accept
ForkCaught ==
  /\ ListenerRuns /\ lpc = "fork"
  /\ \/ /\ lpc' = "parent_close"
        /\ wpc' = [wpc EXCEPT ![client_conn] = "close_listen"]
        /\ wlisten' = [wlisten EXCEPT ![client_conn] = TRUE]
        /\ wfd' = [wfd EXCEPT ![client_conn] = "open"]
     \/ /\ lpc' = "accept"
        /\ UNCHANGED << wpc, wlisten, wfd >>
  /\ UNCHANGED << llisten, err, installed, nconn, client_conn, lfd, wcloses,
                  request, nrecv, nsend, printed, written, status, reapedBy >>
  /\ UNCHANGED << svars, hvars >>

\* pid = os.fork(): the child starts at "if pid == 0", with copies of both
\* sockets; a failed fork raises OSError out of the loop: the Listener ends
\* and client_conn.close() is not reached
Fork ==
  /\ ListenerRuns /\ lpc = "fork"
  /\ \/ /\ lpc' = "parent_close"
        /\ wpc' = [wpc EXCEPT ![client_conn] = "close_listen"]
        /\ wlisten' = [wlisten EXCEPT ![client_conn] = TRUE]
        /\ wfd' = [wfd EXCEPT ![client_conn] = "open"]
        /\ UNCHANGED reapedBy
     \/ /\ Exit
        /\ UNCHANGED << wlisten, wfd >>
  /\ UNCHANGED << llisten, err, installed, nconn, client_conn, lfd, wcloses,
                  request, nrecv, nsend, printed, written, status >>
  /\ UNCHANGED << svars, hvars >>

\* the parent going back to accept without closing its copy
ParentNoClose ==
  /\ ListenerRuns /\ lpc = "parent_close"
  /\ lpc' = "accept"
  /\ UNCHANGED << llisten, err, installed, nconn, client_conn, lfd >>
  /\ UNCHANGED << wvars, svars, hvars >>

\* the parent waiting for its child before it closes and accepts again
ParentCloseJoin ==
  /\ ListenerRuns /\ lpc = "parent_close"
  /\ wpc[client_conn] \in {"zombie", "reaped"}
  /\ lfd' = [lfd EXCEPT ![client_conn] = "closed"]
  /\ lpc' = "accept"
  /\ UNCHANGED << llisten, err, installed, nconn, client_conn >>
  /\ UNCHANGED << wvars, svars, hvars >>

\* parent: client_conn.close()
ParentClose ==
  /\ ListenerRuns /\ lpc = "parent_close"
  /\ lfd' = [lfd EXCEPT ![client_conn] = "closed"]
  /\ lpc' = "accept"
  /\ UNCHANGED << llisten, err, installed, nconn, client_conn >>
  /\ UNCHANGED << wvars, svars, hvars >>

\* ---- the Worker (the forked child handling connection c) ------------------
\* listen_socket.shutdown() in the child: acts on the socket both processes
\* share, not on the child's descriptor alone
WShutdownListen(c) ==
  /\ wpc[c] = "close_listen"
  /\ wlisten' = [wlisten EXCEPT ![c] = FALSE]
  /\ llisten' = FALSE
  /\ wpc' = [wpc EXCEPT ![c] = "recv"]
  /\ UNCHANGED << wfd, wcloses, request, nrecv, nsend, printed, written,
                  status, reapedBy >>
  /\ UNCHANGED << lpc, err, installed, nconn, client_conn, lfd >>
  /\ UNCHANGED << svars, hvars >>

\* child: listen_socket.close(): the child's descriptor only
WCloseListen(c) ==
  /\ wpc[c] = "close_listen"
  /\ wlisten' = [wlisten EXCEPT ![c] = FALSE]
  /\ wpc' = [wpc EXCEPT ![c] = "recv"]
  /\ UNCHANGED << wfd, wcloses, request, nrecv, nsend, printed, written,
                  status, reapedBy >>
  /\ UNCHANGED << lvars, svars, hvars >>

\* the empty-read check left out
AfterRecvAlways(req) == "sendall"

\* handle_request: "if not request: return", else on to print and sendall
AfterRecv(req) == IF req = << >> THEN "close" ELSE "sendall"

\* the child's branch inside the Listener's try: its OSError is caught and
\* the child goes round the accept loop
OnWorkerErrorCaught == "continue"

\* child: nothing catches the OSError of handle_request (the try of the
\* accept loop ends before fork): the interpreter ends with status 1
OnWorkerError == "exit"

\* The Worker process ends with status st.  While the Listener lives, the
\* kernel keeps the record as a zombie and raises SIGCHLD (one pending signal,
\* however many children have ended); without a parent, init collects it.
Terminate(c, st) ==
  /\ status' = [status EXCEPT ![c] = st]
  /\ IF Alive
       THEN /\ wpc' = [wpc EXCEPT ![c] = "zombie"]
            /\ sigpending' = TRUE
            /\ UNCHANGED reapedBy
       ELSE /\ wpc' = [wpc EXCEPT ![c] = "reaped"]
            /\ reapedBy' = [reapedBy EXCEPT ![c] = "init"]
            /\ UNCHANGED sigpending

\* handle_request: request = conn.recv(BUFFER_SIZE); if not request: return;
\* print(request.decode(errors="ignore")).  The peer decides what recv
\* returns: some bytes, nothing (it closed), or an error (it reset); while
\* the peer stays silent the Worker stays here.  The OSError of a failed recv
\* leaves handle_request and serve_forever uncaught: the child ends with
\* status 1 and never calls client_conn.close().
WRecv(c) ==
  /\ wpc[c] = "recv"
  /\ nrecv' = [nrecv EXCEPT ![c] = @ + 1]
  /\ \/ /\ \E data \in Payloads \cup {<< >>} :
             /\ request' = [request EXCEPT ![c] = Recv(data)]
             /\ wpc' = [wpc EXCEPT ![c] = AfterRecv(Recv(data))]
             /\ printed' = IF AfterRecv(Recv(data)) = "sendall"
                             THEN [printed EXCEPT ![c] = Decode(Recv(data))]
                             ELSE printed
        /\ UNCHANGED << status, reapedBy, sigpending >>
     \/ /\ IF OnWorkerError = "exit"
             THEN Terminate(c, 1)
             ELSE /\ wpc' = [wpc EXCEPT ![c] = "accept"]
                  /\ UNCHANGED << status, reapedBy, sigpending >>
        /\ UNCHANGED << request, printed >>
  /\ UNCHANGED << wlisten, wfd, wcloses, nsend, written >>
  /\ UNCHANGED << lvars, hvars >>

\* conn.send(response) in place of sendall: returns after a partial write
WSend(c) ==
  /\ wpc[c] = "sendall"
  /\ nsend' = [nsend EXCEPT ![c] = @ + 1]
  /\ \E k \in 1..Len(Response) :
       /\ written' = [written EXCEPT ![c] = @ \o SubSeq(Response, 1, k)]
       /\ wpc' = [wpc EXCEPT ![c] = "close"]
  /\ UNCHANGED << wlisten, wfd, wcloses, request, nrecv, printed, status,
                  reapedBy >>
  /\ UNCHANGED << lvars, svars, hvars >>

\* a response that carries the request back
WSendEcho(c) ==
  /\ wpc[c] = "sendall"
  /\ nsend' = [nsend EXCEPT ![c] = @ + 1]
  /\ written' = [written EXCEPT ![c] = @ \o Response \o request[c]]
  /\ wpc' = [wpc EXCEPT ![c] = "close"]
  /\ UNCHANGED << wlisten, wfd, wcloses, request, nrecv, printed, status,
                  reapedBy >>
  /\ UNCHANGED << lvars, svars, hvars >>

\* handle_request: conn.sendall(response): the whole response is written, or
\* the call raises after writing only a part of it; that OSError, too, ends
\* the child with status 1
WSendall(c) ==
  /\ wpc[c] = "sendall"
  /\ nsend' = [nsend EXCEPT ![c] = @ + 1]
  /\ \/ /\ written' = [written EXCEPT ![c] = @ \o Response]
        /\ wpc' = [wpc EXCEPT ![c] = "close"]
        /\ UNCHANGED << status, reapedBy, sigpending >>
     \/ /\ \E k \in 0..(Len(Response) - 1) :
             written' = [written EXCEPT ![c] = @ \o SubSeq(Response, 1, k)]
        /\ IF OnWorkerError = "exit"
             THEN Terminate(c, 1)
             ELSE /\ wpc' = [wpc EXCEPT ![c] = "accept"]
                  /\ UNCHANGED << status, reapedBy, sigpending >>
  /\ UNCHANGED << wlisten, wfd, wcloses, request, nrecv, printed >>
  /\ UNCHANGED << lvars, hvars >>

\* child: client_conn.close()
WClose(c) ==
  /\ wpc[c] = "close"
  /\ wfd' = [wfd EXCEPT ![c] = "closed"]
  /\ wcloses' = [wcloses EXCEPT ![c] = @ + 1]
  /\ wpc' = [wpc EXCEPT ![c] = "exit"]
  /\ UNCHANGED << wlisten, request, nrecv, nsend, printed, written, status,
                  reapedBy >>
  /\ UNCHANGED << lvars, svars, hvars >>

\* child: os._exit(0)
WExit(c) ==
  /\ wpc[c] = "exit"
  /\ Terminate(c, 0)
  /\ UNCHANGED << wlisten, wfd, wcloses, request, nrecv, nsend, printed,
                  written >>
  /\ UNCHANGED << lvars, hvars >>

\* ---- SIGCHLD and the Reaper ----------------------------------------------
\* The kernel delivers the pending SIGCHLD to the Listener and the
\* interpreter calls reap_children(signum, frame), between two steps of the
\* Listener or of a running invocation (without a registered handler the
\* signal is discarded).  A Listener blocked in accept is interrupted: accept
\* is restarted once the handler has run, or it fails with EINTR (an
\* interpreter that does not retry).
DeliverSignal ==
  /\ Alive /\ sigpending
  /\ sigpending' = FALSE
  /\ depth' = IF installed THEN depth + 1 ELSE depth
  /\ \/ UNCHANGED << lpc, err >>
     \/ /\ lpc = "accept" /\ depth = 0 /\ installed
        /\ lpc' = "except"
        /\ err' = "EINTR"
  /\ UNCHANGED << llisten, installed, nconn, client_conn, lfd >>
  /\ UNCHANGED << wvars >>

\* os.waitpid(-1, 0): waits while children run and none has terminated
WaitpidBlocking ==
  IF Zombies # {} THEN Zombies ELSE IF Running # {} THEN {} ELSE {-1}

\* os.waitpid(-1, os.WNOHANG): the pid of a terminated child; 0 when children
\* exist and none has terminated; OSError (ECHILD, here -1) without children
Waitpid ==
  IF Zombies # {} THEN Zombies ELSE IF Running # {} THEN {0} ELSE {-1}

\* one waitpid per invocation, no loop
ReapOnce(pid) == "break"

\* reap_children: "if pid == 0: break", else around the loop again
ReapNext(pid) == IF pid = 0 THEN "break" ELSE "loop"

\* no "except OSError": the error of waitpid leaves the handler
OnWaitpidErrorRaise == "raise"

\* reap_children: "except OSError: break"
OnWaitpidError == "break"

\* reap_children: one turn of the loop.  (An OSError that left the handler
\* would surface in the Listener, wherever it is, and end it.)
HandlerWaitpid ==
  /\ Alive /\ depth > 0
  /\ \E pid \in Waitpid :
       IF pid = -1 /\ OnWaitpidError # "break"
         THEN /\ Exit
              /\ depth' = 0
              /\ UNCHANGED << llisten, err, installed, nconn, client_conn,
                              lfd >>
         ELSE /\ IF pid > 0
                   THEN /\ wpc' = [wpc EXCEPT ![pid] = "reaped"]
                        /\ reapedBy' = [reapedBy EXCEPT ![pid] = "reaper"]
                   ELSE UNCHANGED << wpc, reapedBy >>
              /\ IF pid = -1 \/ ReapNext(pid) = "break"
                   THEN depth' = depth - 1
                   ELSE depth' = depth
              /\ UNCHANGED lvars
  /\ UNCHANGED << wlisten, wfd, wcloses, request, nrecv, nsend, printed,
                  written, status >>
  /\ UNCHANGED << svars >>

\* ---- the system -----------------------------------------------------------
Listener ==
  \/ Bind \/ Listen \/ InstallHandler \/ AcceptOk \/ AcceptFail \/ Except
  \/ Fork \/ ParentClose

Worker(c) ==
  \/ WCloseListen(c) \/ WRecv(c) \/ WSendall(c) \/ WClose(c) \/ WExit(c)

Reaper == DeliverSignal \/ HandlerWaitpid

Next == Listener \/ (\E c \in Conns : Worker(c)) \/ Reaper

Spec == Init /\ [][Next]_vars

\* What the scheduling guarantees: a process that can take a step of its own
\* takes it, and a pending signal is delivered and handled.  Nothing makes a
\* client connect or send, so the steps that wait for one (AcceptOk,
\* AcceptFail, WRecv) are not fair.
ListenerStep ==
  Bind \/ Listen \/ InstallHandler \/ Except \/ Fork \/ ParentClose

WorkerStep(c) == WCloseListen(c) \/ WSendall(c) \/ WClose(c) \/ WExit(c)

Fairness ==
  /\ WF_vars(ListenerStep)
  /\ \A c \in Conns : WF_vars(WorkerStep(c))
  /\ WF_vars(DeliverSignal)
  /\ WF_vars(HandlerWaitpid)

FairSpec == Spec /\ Fairness

\* ---- claims ----------------------------------------------------------------
TypeOK ==
  /\ lpc \in {"bind", "listen", "signal", "accept", "except", "fork",
              "parent_close", "exited"}
  /\ llisten \in BOOLEAN
  /\ err \in {"none", "EINTR", "OTHER"}
  /\ nconn \in 0..MaxConn /\ client_conn \in 0..MaxConn
  /\ \A c \in Conns :
       /\ wpc[c] \in {"none", "close_listen", "recv", "sendall", "close",
                      "exit", "zombie", "reaped"}
       /\ status[c] \in {-1, 0, 1}
       /\ reapedBy[c] \in {"none", "reaper", "init"}
  /\ depth \in 0..MaxConn

IsPrefix(s, t) == Len(s) <= Len(t) /\ s = SubSeq(t, 1, Len(s))

\* the Worker of c has left handle_request by its return
Returned(c) ==
  wpc[c] \in {"close", "exit"} \/ (c \in Terminated /\ status[c] = 0)

\* C1, as stated: on every connection whose read returned a non-empty
\* payload, the bytes written are exactly the fixed response, written once
\* and in full.
C1_Original ==
  \A c \in Conns :
    (request[c] # << >> /\ c \in Terminated)
      => (written[c] = Response /\ nsend[c] = 1)

\* C1, amended: on every connection whose read returned a non-empty payload
\* and whose sendall did not fail, the bytes written are exactly the fixed
\* response, written by one sendall; when sendall fails, a proper prefix of
\* the response has been written; nothing else is ever written.
C1_FixedResponse ==
  \A c \in Conns :
    /\ IsPrefix(written[c], Response)
    /\ nsend[c] <= 1
    /\ (request[c] # << >> /\ Returned(c))
         => (written[c] = Response /\ nsend[c] = 1)
    /\ (c \in Terminated /\ status[c] = 1) => written[c] # Response

C1_Witness ==
  \E c \in Conns :
    /\ request[c] = << 255, 71 >> /\ c \in Terminated /\ status[c] = 0
    /\ written[c] = Response

\* C2: on every connection whose read returned nothing (the peer closed
\* without sending; a read that failed returned nothing either), no byte is
\* written and sendall is never called.
C2_EmptyRead ==
  \A c \in Conns :
    (nrecv[c] = 1 /\ request[c] = << >>)
      => (written[c] = << >> /\ nsend[c] = 0)

C2_Witness ==
  \E c \in Conns :
    /\ nrecv[c] = 1 /\ request[c] = << >> /\ c \in Terminated
    /\ status[c] = 0 /\ written[c] = << >>

\* The Listener's next step never depends on a Worker: after an accept it can
\* fork, after a fork it can close, and at accept it can take a connection.
ListenerNeverWaits ==
  ListenerRuns =>
    /\ lpc = "fork" => ENABLED Fork
    /\ lpc = "parent_close" => ENABLED ParentClose
    /\ (lpc = "accept" /\ nconn < MaxConn) => ENABLED AcceptOk

\* C3: whatever the Workers do (hang in recv, fail), the Listener never waits
\* for one: its next step is always possible, and after every accept it gets
\* back to accept (unless fork fails and ends it).
C3_WorkerIsolation ==
  /\ []ListenerNeverWaits
  /\ (lpc \in {"fork", "parent_close"}) ~> (lpc \in {"accept", "exited"})

\* a Worker hangs in its read while a later connection has been served
C3_Witness ==
  \E a, b \in Conns :
    a < b /\ wpc[a] = "recv" /\ written[b] = Response /\ b \in Terminated

\* C4: once all the Workers spawned so far have terminated, the number of
\* terminated, unreaped Workers returns to zero.
C4_ReapInvariant ==
  (Spawned # {} /\ Spawned \subseteq Terminated) ~> (Zombies = {})

\* all Workers have terminated, several of them unreaped behind a single
\* pending notification
C4_Witness ==
  /\ Spawned # {} /\ Spawned \subseteq Terminated
  /\ Cardinality(Zombies) >= 2 /\ sigpending /\ depth = 0

\* C5, as stated: every spawned Worker is eventually reaped.
C5_Original ==
  \A c \in Conns : (wpc[c] # "none") ~> (wpc[c] = "reaped")

\* C5, amended: every Worker that terminates is eventually reaped, by the
\* Reaper while the Listener runs (by init once the Listener has exited).
C5_TerminatedReaped ==
  \A c \in Conns :
    (wpc[c] = "zombie")
      ~> (wpc[c] = "reaped" /\ (reapedBy[c] = "reaper" \/ ~Alive))

C5_Witness ==
  \E c \in Conns : wpc[c] = "reaped" /\ reapedBy[c] = "reaper" /\ Alive

\* C6: an accept that failed with EINTR is followed by another accept: the
\* Listener does not exit and no Worker is spawned for the attempt.
C6_InterruptedAccept ==
  [][(lpc = "except" /\ err = "EINTR" /\ lpc' # lpc)
       => (lpc' = "accept" /\ nconn' = nconn /\ Spawned' = Spawned)]_vars

\* after an interrupted accept, a later accept has returned a connection
C6_Witness ==
  err = "EINTR" /\ lpc = "fork" /\ client_conn = 2

\* C7: an accept that failed with another error ends the Listener, which
\* then accepts nothing and spawns nothing.
C7_FatalAccept ==
  [][/\ (lpc = "except" /\ err = "OTHER" /\ lpc' # lpc) => lpc' = "exited"
     /\ lpc = "exited"
          => (lpc' = "exited" /\ nconn' = nconn /\ Spawned' = Spawned)]_vars

C7_Witness ==
  lpc = "exited" /\ err = "OTHER" /\ nconn >= 1

\* C8, as stated: every Worker has called close on its connection exactly
\* once when it terminates, on every path.
C8_ClosedOnce ==
  \A c \in Conns : c \in Terminated => wcloses[c] = 1

\* C9: when an invocation of reap_children returns, no terminated Worker is
\* left unreaped (so none of those that had terminated when it started).
C9_DrainsAll ==
  [][depth' < depth => Zombies' = {}]_vars

\* an invocation runs, the Reaper has collected a Worker, none is left to
\* collect and another Worker still runs: the next check returns 0 and ends
\* the invocation
C9_Witness ==
  /\ depth > 0 /\ Zombies = {} /\ Running # {}
  /\ \E c \in Conns : reapedBy[c] = "reaper"

\* C10: an invocation of reap_children can always take its next turn,
\* whether or not Workers are running, and every invocation ends.
C10_NeverBlocks ==
  /\ [](depth > 0 => ENABLED HandlerWaitpid)
  /\ (depth > 0) ~> (depth = 0)

\* an invocation runs while a Worker hangs in its read and none has
\* terminated
C10_Witness ==
  /\ depth > 0 /\ Zombies = {}
  /\ \E c \in Conns : wpc[c] = "recv"

\* positions of the Listener inside its accept loop
InLoop == lpc \in {"accept", "except", "fork", "parent_close"}

\* C11: a Worker whose recv or sendall fails terminates in that step (status
\* 1), the step changes nothing of the Listener, of the Reaper or of another
\* Worker, and the failed Worker is reaped.
C11_FailureConfined ==
  /\ [][\A c \in Conns :
          (wpc[c] \in {"recv", "sendall"}
             /\ wpc'[c] \notin {"recv", "sendall", "close"})
            => /\ c \in Terminated' /\ status'[c] = 1
               /\ lvars' = lvars /\ depth' = depth
               /\ \A d \in Conns \ {c} :
                    wpc'[d] = wpc[d] /\ written'[d] = written[d]]_vars
  /\ \A c \in Conns : (status[c] = 1) ~> (wpc[c] = "reaped")

\* a failed Worker has been reaped and another connection has been served
C11_Witness ==
  \E c, d \in Conns :
    /\ status[c] = 1 /\ reapedBy[c] = "reaper" /\ Alive
    /\ status[d] = 0 /\ written[d] = Response

\* C12, as stated: every Worker that has terminated has read exactly once,
\* written at most once and only after a non-empty read, closed its
\* connection, and exited with status 0.
C12_LinearSequence ==
  \A c \in Terminated :
    /\ nrecv[c] = 1
    /\ nsend[c] <= 1 /\ (nsend[c] = 1 => request[c] # << >>)
    /\ wcloses[c] = 1 /\ wfd[c] = "closed"
    /\ status[c] = 0

\* C13: the Listener holds a connection only from its accept to the close
\* that follows the fork, its step after the fork is that close, and every
\* read and write on a connection is a step of its Worker that leaves the
\* Listener as it is.
C13_ListenerReleases ==
  /\ [](\A c \in Conns :
          lfd[c] = "open"
            => (c = client_conn /\ lpc \in {"fork", "parent_close", "exited"}))
  /\ [][(lpc = "parent_close" /\ lpc' # lpc)
          => (lpc' = "accept" /\ lfd'[client_conn] = "closed")]_vars
  /\ [][\A c \in Conns :
          (nrecv'[c] # nrecv[c] \/ nsend'[c] # nsend[c]
             \/ written'[c] # written[c])
            => (wpc[c] \in {"recv", "sendall"} /\ lvars' = lvars)]_vars

C13_Witness ==
  \E c \in Conns :
    lfd[c] = "closed" /\ nrecv[c] = 1 /\ written[c] = Response

\* C14: a Worker holds its copy of the listening socket only before its first
\* step, so never once it has read; no Worker ever accepts; and the
\* Listener's listening socket stays open whatever the Workers close.
C14_ListeningSocket ==
  /\ \A c \in Conns :
       /\ wlisten[c] => wpc[c] = "close_listen"
       /\ nrecv[c] > 0 => ~wlisten[c]
       /\ wpc[c] # "accept"
  /\ InLoop => llisten

\* a Worker has closed its copy and ended, and the Listener has accepted again
C14_Witness ==
  /\ 1 \in Terminated /\ nrecv[1] = 1 /\ ~wlisten[1]
  /\ llisten /\ nconn = 2

\* C15: without a listening socket (bind or listen failed) the Listener is
\* nowhere but at startup or ended, with no handler installed, no connection
\* accepted and no Worker spawned.
C15_StartupFatal ==
  ~llisten =>
    /\ lpc \in {"bind", "listen", "exited"}
    /\ ~installed /\ nconn = 0 /\ Spawned = {}

C15_Witness == lpc = "exited" /\ ~llisten

\* C16: an invocation of reap_children that finds no child (waitpid fails)
\* returns and leaves the Listener as it is; the handler stays registered;
\* and Workers that terminate afterwards are collected.
C16_ReapError ==
  /\ [][(depth > 0 /\ Children = {} /\ depth' < depth)
          => (depth' = depth - 1 /\ lvars' = lvars)]_vars
  /\ [](InLoop => installed)
  /\ (Zombies # {}) ~> (Zombies = {})

\* the invocation that collected the only Worker has ended on the error, and
\* the Listener has accepted the next connection
C16_Witness ==
  /\ wpc[1] = "reaped" /\ reapedBy[1] = "reaper" /\ depth = 0
  /\ lpc = "fork" /\ client_conn = 2

\* C17, as stated: all connections with a non-empty request get the same
\* bytes.
C17_Original ==
  \A a, b \in Terminated :
    (request[a] # << >> /\ request[b] # << >>) => written[a] = written[b]

\* C17, amended: all connections with a non-empty request whose sendall did
\* not fail get the same bytes, whatever their requests; and what is written
\* is at all times a part of the fixed response, never of a request.
C17_Independence ==
  /\ \A a, b \in Conns :
       (request[a] # << >> /\ request[b] # << >> /\ Returned(a) /\ Returned(b))
         => written[a] = written[b]
  /\ \A c \in Conns : IsPrefix(written[c], Response)

C17_Witness ==
  /\ request[1] = << 71 >> /\ request[2] = << 255, 71 >>
  /\ Returned(1) /\ Returned(2) /\ written[1] = written[2]

\* C18: the handler is registered before the first accept and fork and
\* stays so; while the Listener lives, a terminated, unreaped Worker always
\* has a notification pending or an invocation of the handler running.
C18_HandlerInstalled ==
  /\ (InLoop \/ nconn > 0 \/ Spawned # {}) => installed
  /\ (Alive /\ Zombies # {}) => (sigpending \/ depth > 0)

C18_Witness ==
  Alive /\ installed /\ Zombies # {} /\ sigpending /\ depth = 0

\* C19: at accept the Listener holds no open connection socket, and it never
\* holds more than one.
C19_NoDescriptorLeak ==
  /\ lpc \in {"accept", "except"} => \A c \in Conns : lfd[c] # "open"
  /\ Cardinality({c \in Conns : lfd[c] = "open"}) <= 1

\* back at accept after two connections and an interrupted accept
C19_Witness ==
  /\ lpc = "accept" /\ nconn = 2 /\ err = "EINTR"
  /\ \A c \in Conns : lfd[c] = "closed"

\* C20: a connection that was accepted and has no Worker outside the moment
\* before the fork is one whose fork failed: the Listener has ended, its
\* descriptor was never closed, nothing was written to it and it is the last
\* connection accepted.
C20_ForkFailure ==
  /\ [](\A c \in Conns :
          (lfd[c] # "none" /\ wpc[c] = "none" /\ lpc # "fork")
            => /\ lpc = "exited" /\ lfd[c] = "open"
               /\ written[c] = << >> /\ nconn = c)
  /\ [][lpc = "exited" => (lpc' = "exited" /\ nconn' = nconn)]_vars

C20_Witness ==
  /\ lpc = "exited"
  /\ \E c \in Conns : lfd[c] = "open" /\ wpc[c] = "none" /\ nconn = c

====
